---- MODULE Spec2Model ----
(***************************************************************************)
(* The control loop of player.py (tag scans, the last_tag_id latch, the    *)
(* three polled buttons, shutdown) as a state machine.  One action is one  *)
(* step of the loop between two points at which it can block or be         *)
(* interrupted: a hardware read, a registry lookup, a call of the Spotify  *)
(* client, a sleep.  Time is counted in units of 100 ms.                   *)
(***************************************************************************)
EXTENDS Integers, Sequences, FiniteSets, TLC

VARIABLES
    pc,           \* position of the main loop (player.py 159-201)
    last_tag_id,  \* player.py:81, the duplicate-scan latch
    tag_id,       \* player.py:163, the identifier read in this tick
    tag_data,     \* player.py:166, the row get_tag_data returned
    playback,     \* player.py:130, what current_playback returned
    tags,         \* the rows of table tags of nfc_tags.db (app.py:22-28)
    sqlite_sequence, \* the largest id AUTOINCREMENT has given a row (app.py:23)
    staleLatch,   \* history: the latched tag's row was edited or deleted since
    tickCalls,    \* history: the Spotify client calls of the current tick
    curScan,      \* history: the scan of the current tick
    prevScan,     \* history: the latest scan of an earlier tick
    sincePress,   \* time since each button's latest honored press
    event,        \* history: what the step just taken did and how it ended
    cleanups,     \* history: number of GPIO.cleanup() calls (player.py:201)
    exitCause,    \* history: what ended the loop
    exitAt        \* history: the position at which the loop was ended

vars == <<pc, last_tag_id, tag_id, tag_data, playback, tags, sqlite_sequence,
          staleLatch, tickCalls, curScan, prevScan, sincePress, event, cleanups,
          exitCause, exitAt>>

None == "None"

\* The falsy value fetchone() gives when no row matches.
NoRow == <<>>

\* ---------------------------------------------------------------- bounds

\* Times at or above ClockCap are not told apart.
ClockCap == 4

\* The longest time, in units of 100 ms, reader.read() is followed while it blocks.
MaxBlock == 1

\* The number of rows the application is followed inserting.
MaxRowId == 3

\* ------------------------------------------------------ program constants

DebounceDelay == 3     \* sleep(0.3) after a button handler
LoopDelay == 1         \* sleep(0.1) at the end of an iteration
SettleDelay == 10      \* sleep(1) after transfer_playback

BTN_PLAY_PAUSE == "Play/Pause"
BTN_NEXT == "Next Track"
BTN_PREV == "Previous Track"
buttons == {BTN_PLAY_PAUSE, BTN_NEXT, BTN_PREV}

LOW == "LOW"
HIGH == "HIGH"

\* ------------------------------------------------------------ the registry

\* The identifiers the reader can return.
TagIds == {"11", "22", "33", "44", "55"}

Row(i, t, u, m) == [id |-> i, tag_id |-> t, spotify_uri |-> u, media_type |-> m]

\* A registry holding a row of each media type play_media tells apart, and no row
\* for tag 55.
InitialTags ==
    << Row(1, "11", "spotify:track:a1", "track"),
       Row(2, "22", "spotify:album:b2", "album"),
       Row(3, "33", "spotify:playlist:c3", "playlist"),
       Row(4, "44", "spotify:show:d4", "show") >>

\* get_tag_data answering a miss with the first row of the table.
get_tag_data_or_first(t) ==
    LET hits == {i \in 1..Len(tags) : tags[i].tag_id = t}
        first == IF hits = {} THEN 1 ELSE CHOOSE i \in hits : \A j \in hits : i <= j
    IN  IF Len(tags) = 0 THEN NoRow
        ELSE <<tags[first].spotify_uri, tags[first].media_type>>

\* get_tag_data returning the last matching row in table order.
get_tag_data_last(t) ==
    LET hits == {i \in 1..Len(tags) : tags[i].tag_id = t}
    IN  IF hits = {} THEN NoRow
        ELSE LET last == CHOOSE i \in hits : \A j \in hits : i >= j
             IN  <<tags[last].spotify_uri, tags[last].media_type>>

\* get_tag_data with the WHERE clause lost: the first row of the table.
get_tag_data_any(t) ==
    IF Len(tags) = 0 THEN NoRow ELSE <<tags[1].spotify_uri, tags[1].media_type>>

\* SELECT spotify_uri, media_type FROM tags WHERE tag_id = ?, fetchone():
\* the first matching row in table order, or None.
get_tag_data(t) ==
    LET hits == {i \in 1..Len(tags) : tags[i].tag_id = t}
    IN  IF hits = {} THEN NoRow
        ELSE LET first == CHOOSE i \in hits : \A j \in hits : i <= j
             IN  <<tags[first].spotify_uri, tags[first].media_type>>

\* ------------------------------------------------------------------ time

Min(a, b) == IF a < b THEN a ELSE b

\* sleep(d), or a blocking call lasting d: every running timer advances.
Elapse(d) ==
    [b \in buttons |-> IF sincePress[b] = -1 THEN -1
                        ELSE Min(sincePress[b] + d, ClockCap)]

\* ------------------------------------------------------------- histories

\* stale: the scan found the latch stale (staleLatch) and was of the latched tag.
NoScan == [tag |-> None, before |-> None, lookup |-> "none",
           transfer |-> "none", start |-> "none", stale |-> FALSE]

\* A step: the call or statement it ran (op) and how that ended (outcome).  A
\* button poll also tells the button, the level read and the time since the last
\* honored press of that button (-1: none yet).
Event(op, outcome) ==
    [op |-> op, outcome |-> outcome, button |-> None, level |-> None, gap |-> -1]

PollEvent(b, level, gap) ==
    [op |-> "GPIO.input", outcome |-> "ok", button |-> b, level |-> level, gap |-> gap]

Call(src, op, uris, context_uri) ==
    [src |-> src, op |-> op, uris |-> uris, context_uri |-> context_uri]

LoopPcs == {"read", "lookup", "transfer", "settle", "start",
            "poll_pp", "pp_query", "pp_cmd", "pp_sleep",
            "poll_next", "next_cmd", "next_sleep",
            "poll_prev", "prev_cmd", "prev_sleep", "loop_sleep"}

\* ------------------------------------------------------- the loop's body

\* The loop's body with the first two button blocks exchanged.
LoopOrderSwapped == <<"tag", BTN_NEXT, BTN_PLAY_PAUSE, BTN_PREV>>

\* The blocks of the while body in the order they are written (lines 161-190).
LoopOrder == <<"tag", BTN_PLAY_PAUSE, BTN_NEXT, BTN_PREV>>

\* The position at which each block starts.
EntryPc(block) ==
    CASE block = "tag" -> "read"
      [] block = BTN_PLAY_PAUSE -> "poll_pp"
      [] block = BTN_NEXT -> "poll_next"
      [] block = BTN_PREV -> "poll_prev"

\* Where control goes when a block is done: the next block, or the loop's sleep.
AfterBlock(block) ==
    LET k == CHOOSE i \in 1..Len(LoopOrder) : LoopOrder[i] = block
    IN  IF k < Len(LoopOrder) THEN EntryPc(LoopOrder[k + 1]) ELSE "loop_sleep"

\* ------------------------------------------------------------------ Init

Init ==
    /\ pc = "read"
    /\ last_tag_id = None
    /\ tag_id = None
    /\ tag_data = NoRow
    /\ playback = None
    /\ tags = InitialTags
    /\ sqlite_sequence = Len(InitialTags)
    /\ staleLatch = FALSE
    /\ tickCalls = <<>>
    /\ curScan = NoScan
    /\ prevScan = NoScan
    /\ sincePress = [b \in buttons |-> -1]
    /\ event = Event("start", "none")
    /\ cleanups = 0
    /\ exitCause = "none"
    /\ exitAt = None

\* ------------------------------------------------------------ tag handling

\* Where the loop goes when the try block of lines 162-175 ends.
AfterTagBlock == AfterBlock("tag")

\* The tag block without its except Exception clause: the exception reaches the
\* outer try.
OnTagExceptionUncaught == "finally"

\* Where the loop goes when an exception is raised inside that try block: the
\* except Exception clause of lines 176-177 prints it and the loop goes on.
OnTagException == AfterBlock("tag")

\* A comparison that also takes a tag whose row was changed for new.
IsNewTagOrChanged(t) == t # last_tag_id \/ staleLatch

\* The comparison with the latch left out: every scan is new.
IsNewTagAlways(t) == TRUE

\* if tag_id != last_tag_id (line 164).
IsNewTag(t) == t # last_tag_id

\* tag_id = str(reader.read()[0]) returned t after blocking for d.
ReadTag ==
    /\ pc = "read"
    /\ \E t \in TagIds, d \in 0..MaxBlock :
        /\ tag_id' = t
        /\ sincePress' = Elapse(d)
        /\ IF IsNewTag(t)
           THEN /\ pc' = "lookup"
                /\ curScan' = [NoScan EXCEPT !.tag = t, !.before = last_tag_id,
                                             !.lookup = "pending",
                                             !.stale = (staleLatch /\ t = last_tag_id)]
           ELSE /\ pc' = AfterTagBlock
                /\ curScan' = [NoScan EXCEPT !.tag = t, !.before = last_tag_id,
                                             !.lookup = "dup",
                                             !.stale = (staleLatch /\ t = last_tag_id)]
    /\ event' = Event("reader.read", "ok")
    /\ UNCHANGED <<last_tag_id, tag_data, playback, tags, sqlite_sequence, staleLatch,
                   tickCalls, prevScan, cleanups, exitCause, exitAt>>

\* reader.read() raised: caught at line 176.
ReadFail ==
    /\ pc = "read"
    /\ \E d \in 0..MaxBlock : sincePress' = Elapse(d)
    /\ pc' = OnTagException
    /\ event' = Event("reader.read", "error")
    /\ UNCHANGED <<last_tag_id, tag_id, tag_data, playback, tags, sqlite_sequence,
                   staleLatch, tickCalls, curScan, prevScan, cleanups, exitCause,
                   exitAt>>

\* tag_data = get_tag_data(tag_id); if tag_data: ... else: not found (166-173).
Lookup ==
    /\ pc = "lookup"
    /\ tag_data' = get_tag_data(tag_id)
    /\ IF tag_data' # NoRow
       THEN /\ pc' = "transfer"
            /\ curScan' = [curScan EXCEPT !.lookup = "hit"]
       ELSE /\ pc' = AfterTagBlock
            /\ curScan' = [curScan EXCEPT !.lookup = "miss"]
    /\ event' = Event("get_tag_data", "ok")
    /\ UNCHANGED <<last_tag_id, tag_id, playback, tags, sqlite_sequence, staleLatch,
                   tickCalls, prevScan, sincePress, cleanups, exitCause, exitAt>>

\* get_tag_data raised (sqlite3 error): caught at line 176.
LookupFail ==
    /\ pc = "lookup"
    /\ pc' = OnTagException
    /\ curScan' = [curScan EXCEPT !.lookup = "error"]
    /\ event' = Event("get_tag_data", "error")
    /\ UNCHANGED <<last_tag_id, tag_id, tag_data, playback, tags, sqlite_sequence,
                   staleLatch, tickCalls, prevScan, sincePress, cleanups, exitCause,
                   exitAt>>

\* ------------------------------------------------------------- play_media

\* play_media without the try around the transfer: it goes on whatever the call
\* did.
TransferHandlingIgnored(outcome) == "continue"

\* What play_media does with the way transfer_playback ended (lines 105-111):
\* it goes on after the call returned, returns after a SpotifyException, and lets
\* any other exception through to its caller.
TransferHandling(outcome) ==
    CASE outcome = "ok" -> "continue"
      [] outcome = "spotify_exc" -> "return"
      [] OTHER -> "raise"

\* The keyword under which start_playback gets the uri (lines 114-119); "none" is
\* the branch that only prints.
StartKind(media_type) ==
    CASE media_type = "track" -> "uris"
      [] media_type \in {"album", "playlist"} -> "context_uri"
      [] OTHER -> "none"

\* The latch cleared in place of set.
LatchCleared(t) == None

\* A latch that is set once and never replaced.
LatchFirstOnly(t) == IF last_tag_id = None THEN t ELSE last_tag_id

\* last_tag_id = tag_id (line 171), reached when play_media returned.
LatchAfterPlay(t) == t

\* sp.transfer_playback(device_id=DEVICE_ID, force_play=True) (line 107).
Transfer ==
    /\ pc = "transfer"
    /\ tickCalls' = Append(tickCalls, Call("tag", "transfer_playback", <<>>, None))
    /\ \E outcome \in {"ok", "spotify_exc", "other_exc"} :
        /\ curScan' = [curScan EXCEPT !.transfer = outcome]
        /\ event' = Event("transfer_playback", outcome)
        /\ CASE TransferHandling(outcome) = "continue" ->
                  /\ pc' = "settle"
                  /\ UNCHANGED <<last_tag_id, staleLatch>>
             [] TransferHandling(outcome) = "return" ->
                  /\ pc' = AfterTagBlock
                  /\ last_tag_id' = LatchAfterPlay(tag_id)
                  /\ staleLatch' = FALSE
             [] OTHER ->
                  /\ pc' = OnTagException
                  /\ UNCHANGED <<last_tag_id, staleLatch>>
    /\ UNCHANGED <<tag_id, tag_data, playback, tags, sqlite_sequence, prevScan,
                   sincePress, cleanups, exitCause, exitAt>>

\* sleep(1) (line 108).
Settle ==
    /\ pc = "settle"
    /\ sincePress' = Elapse(SettleDelay)
    /\ pc' = "start"
    /\ event' = Event("sleep", "none")
    /\ UNCHANGED <<last_tag_id, tag_id, tag_data, playback, tags, sqlite_sequence,
                   staleLatch, tickCalls, curScan, prevScan, cleanups, exitCause,
                   exitAt>>

\* The second try block of play_media (lines 113-121): start_playback with the
\* uri as uris=[uri] or as context_uri, any exception of it caught, or the print
\* of the unknown media type; then line 171.
Start ==
    /\ pc = "start"
    /\ LET uri == tag_data[1]
           kind == StartKind(tag_data[2])
       IN  \/ /\ kind = "uris"
              /\ tickCalls' = Append(tickCalls,
                                     Call("tag", "start_playback", <<uri>>, None))
              /\ \E outcome \in {"ok", "error"} :
                    /\ curScan' = [curScan EXCEPT !.start = outcome]
                    /\ event' = Event("start_playback", outcome)
           \/ /\ kind = "context_uri"
              /\ tickCalls' = Append(tickCalls,
                                     Call("tag", "start_playback", <<>>, uri))
              /\ \E outcome \in {"ok", "error"} :
                    /\ curScan' = [curScan EXCEPT !.start = outcome]
                    /\ event' = Event("start_playback", outcome)
           \/ /\ kind = "none"
              /\ curScan' = [curScan EXCEPT !.start = "unknown_type"]
              /\ event' = Event("print", "none")
              /\ UNCHANGED tickCalls
    /\ last_tag_id' = LatchAfterPlay(tag_id)
    /\ pc' = AfterTagBlock
    /\ staleLatch' = FALSE
    /\ UNCHANGED <<tag_id, tag_data, playback, tags, sqlite_sequence, prevScan,
                   sincePress, cleanups, exitCause, exitAt>>

\* ---------------------------------------------------------------- buttons

\* GPIO.input(pin) == GPIO.LOW (lines 180, 184, 188).
Pressed(level) == level = LOW

\* The handler's sleep as short as the loop's.
HandlerSleepShort == LoopDelay

\* The sleep that follows a button handler (lines 182, 186, 190).
HandlerSleep == DebounceDelay

\* One of the three if GPIO.input(...) == GPIO.LOW blocks: the level is read, and
\* a pressed button's handler is entered.
Poll(b, handlerPc) ==
    /\ pc = EntryPc(b)
    /\ \E level \in {LOW, HIGH} :
        IF Pressed(level)
        THEN /\ pc' = handlerPc
             /\ event' = PollEvent(b, level, sincePress[b])
             /\ sincePress' = [sincePress EXCEPT ![b] = 0]
        ELSE /\ pc' = AfterBlock(b)
             /\ event' = PollEvent(b, level, sincePress[b])
             /\ UNCHANGED sincePress
    /\ UNCHANGED <<last_tag_id, tag_id, tag_data, playback, tags, sqlite_sequence,
                   staleLatch, tickCalls, curScan, prevScan, cleanups, exitCause,
                   exitAt>>

\* sleep(0.3) after the handler of button b returned; the handler's local
\* playback is gone with it.
Debounce(b, sleepPc) ==
    /\ pc = sleepPc
    /\ sincePress' = Elapse(HandlerSleep)
    /\ pc' = AfterBlock(b)
    /\ event' = Event("sleep", "none")
    /\ playback' = None
    /\ UNCHANGED <<last_tag_id, tag_id, tag_data, tags, sqlite_sequence, staleLatch,
                   tickCalls, curScan, prevScan, cleanups, exitCause, exitAt>>

\* A handler's client call op, inside try/except Exception: whether it returns or
\* raises, the handler returns (lines 129-136, 141-144, 149-152).
Command(b, cmdPc, sleepPc, op) ==
    /\ pc = cmdPc
    /\ tickCalls' = Append(tickCalls, Call(b, op, <<>>, None))
    /\ \E outcome \in {"ok", "error"} : event' = Event(op, outcome)
    /\ pc' = sleepPc
    /\ UNCHANGED <<last_tag_id, tag_id, tag_data, playback, tags, sqlite_sequence,
                   staleLatch, curScan, prevScan, sincePress, cleanups, exitCause,
                   exitAt>>

PollPlayPause == Poll(BTN_PLAY_PAUSE, "pp_query")

\* playback = sp.current_playback() (line 130): a state that is playing, one that
\* is not, None, or an exception (caught at line 135).
PlayPauseQuery ==
    /\ pc = "pp_query"
    /\ tickCalls' = Append(tickCalls,
                           Call(BTN_PLAY_PAUSE, "current_playback", <<>>, None))
    /\ \E r \in {"playing", "not_playing", None, "error"} :
        IF r = "error"
        THEN /\ event' = Event("current_playback", "error")
             /\ pc' = "pp_sleep"
             /\ UNCHANGED playback
        ELSE /\ event' = Event("current_playback", "ok")
             /\ pc' = "pp_cmd"
             /\ playback' = r
    /\ UNCHANGED <<last_tag_id, tag_id, tag_data, tags, sqlite_sequence, staleLatch,
                   curScan, prevScan, sincePress, cleanups, exitCause, exitAt>>

\* The two branches exchanged.
PlayPauseOpInverted(p) ==
    IF p # None /\ p = "playing" THEN "start_playback" ELSE "pause_playback"

\* if playback and playback["is_playing"]: pause_playback() else: start_playback()
\* (lines 131-134).
PlayPauseOp(p) ==
    IF p # None /\ p = "playing" THEN "pause_playback" ELSE "start_playback"

PlayPauseCommand ==
    Command(BTN_PLAY_PAUSE, "pp_cmd", "pp_sleep", PlayPauseOp(playback))

PlayPauseDebounce == Debounce(BTN_PLAY_PAUSE, "pp_sleep")

PollNext == Poll(BTN_NEXT, "next_cmd")

\* handle_next calling the client's previous_track.
NextCommandAsPrevious == Command(BTN_NEXT, "next_cmd", "next_sleep", "previous_track")

NextCommand == Command(BTN_NEXT, "next_cmd", "next_sleep", "next_track")

NextDebounce == Debounce(BTN_NEXT, "next_sleep")

PollPrev == Poll(BTN_PREV, "prev_cmd")

PrevCommand == Command(BTN_PREV, "prev_cmd", "prev_sleep", "previous_track")

PrevDebounce == Debounce(BTN_PREV, "prev_sleep")

\* sleep(0.1) (line 192), then the next iteration.  The histories of the tick are
\* closed here; tag_id and tag_data are not read again before they are assigned.
LoopSleep ==
    /\ pc = "loop_sleep"
    /\ sincePress' = Elapse(LoopDelay)
    /\ pc' = EntryPc(LoopOrder[1])
    /\ tickCalls' = <<>>
    /\ prevScan' = IF curScan.tag # None THEN curScan ELSE prevScan
    /\ curScan' = NoScan
    /\ tag_id' = None
    /\ tag_data' = NoRow
    /\ event' = Event("sleep", "none")
    /\ UNCHANGED <<last_tag_id, playback, tags, sqlite_sequence, staleLatch, cleanups,
                   exitCause, exitAt>>

\* ------------------------------------------------------------ leaving the loop

\* The outer try without its finally clause.
OnKeyboardInterruptNoFinally == "exited"

\* Where a KeyboardInterrupt raised inside the outer try goes: no except
\* Exception clause catches it, the clause of lines 197-198 prints, and the
\* finally clause follows.
OnKeyboardInterrupt == "finally"

\* Where an exception that no clause catches goes: the finally clause.
OnUncaught == "finally"

\* The interrupt signal arrives while the loop is at any of its positions.
Interrupt ==
    /\ pc \in LoopPcs
    /\ pc' = OnKeyboardInterrupt
    /\ exitCause' = "interrupt"
    /\ exitAt' = pc
    /\ event' = Event("KeyboardInterrupt", "none")
    /\ UNCHANGED <<last_tag_id, tag_id, tag_data, playback, tags, sqlite_sequence,
                   staleLatch, tickCalls, curScan, prevScan, sincePress, cleanups>>

\* GPIO.input raises (lines 180, 184, 188 are inside no inner try block).
GpioFault ==
    /\ pc \in {"poll_pp", "poll_next", "poll_prev"}
    /\ pc' = OnUncaught
    /\ exitCause' = "exception"
    /\ exitAt' = pc
    /\ event' = Event("GPIO.input", "error")
    /\ UNCHANGED <<last_tag_id, tag_id, tag_data, playback, tags, sqlite_sequence,
                   staleLatch, tickCalls, curScan, prevScan, sincePress, cleanups>>

\* finally: GPIO.cleanup() (lines 200-201); the script ends.
Finally ==
    /\ pc = "finally"
    /\ cleanups' = cleanups + 1
    /\ pc' = "exited"
    /\ event' = Event("GPIO.cleanup", "ok")
    /\ UNCHANGED <<last_tag_id, tag_id, tag_data, playback, tags, sqlite_sequence,
                   staleLatch, tickCalls, curScan, prevScan, sincePress, exitCause,
                   exitAt>>

\* ------------------------------------------------------------ specification

Next ==
    \/ ReadTag
    \/ ReadFail
    \/ Lookup
    \/ LookupFail
    \/ Transfer
    \/ Settle
    \/ Start
    \/ PollPlayPause
    \/ PlayPauseQuery
    \/ PlayPauseCommand
    \/ PlayPauseDebounce
    \/ PollNext
    \/ NextCommand
    \/ NextDebounce
    \/ PollPrev
    \/ PrevCommand
    \/ PrevDebounce
    \/ LoopSleep
    \/ Interrupt
    \/ GpioFault
    \/ Finally

Spec == Init /\ [][Next]_vars

\* The interpreter runs a finally clause that has been entered.
FairSpec == Spec /\ WF_vars(Finally)

\* ------------------------------------------- the registry application (app.py)

\* [a-zA-Z0-9], as one-character strings.
Alnum ==
    {"a", "b", "c", "d", "e", "f", "g", "h", "i", "j", "k", "l", "m",
     "n", "o", "p", "q", "r", "s", "t", "u", "v", "w", "x", "y", "z",
     "A", "B", "C", "D", "E", "F", "G", "H", "I", "J", "K", "L", "M",
     "N", "O", "P", "Q", "R", "S", "T", "U", "V", "W", "X", "Y", "Z",
     "0", "1", "2", "3", "4", "5", "6", "7", "8", "9"}

\* The literal head of the pattern and the alternatives of its first group, in
\* the order the pattern lists them.
LinkHost == "open.spotify.com/"
LinkKinds == <<"track", "album", "playlist">>

\* The alternatives of a pattern with the first group loosened to other path
\* segments of the Spotify web player.
LinkKindsLoose == <<"track", "album", "playlist", "show", "episode", "artist">>

\* Whether p occurs in s at position i.
At(s, i, p) == i + Len(p) - 1 <= Len(s) /\ SubSeq(s, i, i + Len(p) - 1) = p

\* The end of the longest run of [a-zA-Z0-9] that starts at i (i - 1: no run).
RECURSIVE RunEnd(_, _)
RunEnd(s, i) ==
    IF i <= Len(s) /\ SubSeq(s, i, i) \in Alnum THEN RunEnd(s, i + 1) ELSE i - 1

\* The groups of a match of host (kind) / ([a-zA-Z0-9]+) that starts at position
\* i of link, as <<media_type, uri_id>>, or <<>> if there is none.
MatchAt(link, i, kinds) ==
    LET from(k) == i + Len(LinkHost) + Len(kinds[k]) + 1
        ok(k) == /\ At(link, i, LinkHost \o kinds[k] \o "/")
                 /\ RunEnd(link, from(k)) >= from(k)
        alts == {k \in 1..Len(kinds) : ok(k)}
    IN  IF alts = {} THEN <<>>
        ELSE LET k == CHOOSE a \in alts : \A b \in alts : a <= b
             IN  <<kinds[k], SubSeq(link, from(k), RunEnd(link, from(k)))>>

\* re.search: the match at the leftmost position that has one.
Search(link, kinds) ==
    LET at == {i \in 1..Len(link) : MatchAt(link, i, kinds) # <<>>}
    IN  IF at = {} THEN <<>>
        ELSE MatchAt(link, CHOOSE i \in at : \A j \in at : i <= j, kinds)

\* re.match in place of re.search: only a match at the start of the link.
Match(link, kinds) == MatchAt(link, 1, kinds)

\* What extract_uri_and_type returns for the groups of a match.
UriAndType(groups) ==
    IF groups = <<>> THEN <<None, None>>
    ELSE <<"spotify:" \o groups[1] \o ":" \o groups[2], groups[1]>>

\* extract_uri_and_type with the first group of the pattern loosened.
extract_uri_and_type_loose(link) == UriAndType(Search(link, LinkKindsLoose))

\* extract_uri_and_type with the pattern anchored at the start of the link.
extract_uri_and_type_anchored(link) == UriAndType(Match(link, LinkKinds))

\* extract_uri_and_type: <<spotify_uri, media_type>>, or <<None, None>>.
extract_uri_and_type(link) == UriAndType(Search(link, LinkKinds))

\* The tag identifiers and links the forms are filled with.
FormTagIds == {"11", "22"}

Links ==
    {"https://open.spotify.com/track/abc123",
     "https://open.spotify.com/album/b2?si=9f",
     "x.io/?u=open.spotify.com/playlist/Zz9/open.spotify.com/track/q",
     "https://open.spotify.com/show/d4",
     "https://open.spotify.com/abc123",
     "https://open.spotify.com/track/",
     "https://openxspotify.com/track/abc123",
     "spotify:track:abc123",
     ""}

\* extract_uri_and_type on each of these links, computed once.
UriAndTypeOf == [l \in Links |-> extract_uri_and_type(l)]

\* The index in tags of the row with this id, or 0.
RowIndex(id) ==
    IF \E k \in 1..Len(tags) : tags[k].id = id
    THEN CHOOSE k \in 1..Len(tags) : tags[k].id = id
    ELSE 0

\* One request to the application: the route, the path's row id (edit, delete),
\* the form's tag_id and spotify_link, and the status of the response.
Request(op, id, tag_val, link, status) ==
    [op |-> op, outcome |-> status, id |-> id, tag_id |-> tag_val, link |-> link]

\* POST /add.
Add(tag, link) ==
    /\ sqlite_sequence < MaxRowId
    /\ LET r == UriAndTypeOf[link]
       IN  IF r[1] = None
           THEN /\ event' = Request("add", 0, tag, link, "400")
                /\ UNCHANGED <<tags, sqlite_sequence>>
           ELSE /\ tags' = Append(tags, Row(sqlite_sequence + 1, tag, r[1], r[2]))
                /\ sqlite_sequence' = sqlite_sequence + 1
                /\ event' = Request("add", 0, tag, link, "302")
    /\ UNCHANGED <<pc, last_tag_id, tag_id, tag_data, playback, staleLatch,
                   tickCalls, curScan, prevScan, sincePress, cleanups,
                   exitCause, exitAt>>

\* POST /edit/<id>.
Edit(id, tag_val, link) ==
    /\ LET r == UriAndTypeOf[link]
           k == RowIndex(id)
       IN  IF r[1] = None
           THEN /\ event' = Request("edit", id, tag_val, link, "400")
                /\ UNCHANGED <<tags, staleLatch>>
           ELSE /\ event' = Request("edit", id, tag_val, link, "302")
                /\ IF k = 0
                   THEN UNCHANGED <<tags, staleLatch>>
                   ELSE /\ tags' = [tags EXCEPT ![k] = Row(id, tag_val, r[1], r[2])]
                        /\ staleLatch' = (\/ staleLatch
                                          \/ /\ tags[k].tag_id = last_tag_id
                                             /\ tags[k].spotify_uri # r[1])
    /\ UNCHANGED <<pc, last_tag_id, tag_id, tag_data, playback, sqlite_sequence,
                   tickCalls, curScan, prevScan, sincePress, cleanups,
                   exitCause, exitAt>>

\* POST /delete/<id>.
Delete(id) ==
    /\ LET k == RowIndex(id)
       IN  IF k = 0
           THEN UNCHANGED <<tags, staleLatch>>
           ELSE /\ tags' = SubSeq(tags, 1, k - 1) \o SubSeq(tags, k + 1, Len(tags))
                /\ staleLatch' = (staleLatch \/ tags[k].tag_id = last_tag_id)
    /\ event' = Request("delete", id, None, None, "302")
    /\ UNCHANGED <<pc, last_tag_id, tag_id, tag_data, playback, sqlite_sequence,
                   tickCalls, curScan, prevScan, sincePress, cleanups,
                   exitCause, exitAt>>

\* The application started on a database init_db has just created.
InitApp ==
    /\ pc = "read"
    /\ last_tag_id = None
    /\ tag_id = None
    /\ tag_data = NoRow
    /\ playback = None
    /\ tags = <<>>
    /\ sqlite_sequence = 0
    /\ staleLatch = FALSE
    /\ tickCalls = <<>>
    /\ curScan = NoScan
    /\ prevScan = NoScan
    /\ sincePress = [b \in buttons |-> -1]
    /\ event = Event("start", "none")
    /\ cleanups = 0
    /\ exitCause = "none"
    /\ exitAt = None

NextApp ==
    \/ \E t \in FormTagIds, l \in Links : Add(t, l)
    \/ \E i \in 1..MaxRowId, t \in FormTagIds, l \in Links : Edit(i, t, l)
    \/ \E i \in 1..MaxRowId : Delete(i)

SpecApp == InitApp /\ [][NextApp]_vars

\* ------------------------------------- the application beside the player

\* reader.read() returning one of the identifiers in T.
Scan(T) == ReadTag /\ tag_id' \in T

\* The polls of a tick in which no button is held down.
ReleasedPlayPause == PollPlayPause /\ event'.level = HIGH
ReleasedNext == PollNext /\ event'.level = HIGH
ReleasedPrev == PollPrev /\ event'.level = HIGH

\* The links of two media, and one of a podcast.
MediaLinks ==
    {"https://open.spotify.com/track/abc123", "https://open.spotify.com/album/b2?si=9f"}
ShowLink == "https://open.spotify.com/show/d4"

\* The application and the player on one database, every tag given at most one
\* row: a tag is added while it has none, and an edit changes a row's link.
NextInterleaved ==
    \/ \E t \in FormTagIds, l \in MediaLinks \cup {ShowLink} :
          ~(\E k \in 1..Len(tags) : tags[k].tag_id = t) /\ Add(t, l)
    \/ \E i \in 1..MaxRowId, l \in MediaLinks \cup {ShowLink} :
          RowIndex(i) # 0 /\ Edit(i, tags[RowIndex(i)].tag_id, l)
    \/ \E i \in 1..MaxRowId : Delete(i)
    \/ Scan(FormTagIds)
    \/ ReadFail
    \/ Lookup
    \/ LookupFail
    \/ Transfer
    \/ Settle
    \/ Start
    \/ ReleasedPlayPause
    \/ ReleasedNext
    \/ ReleasedPrev
    \/ LoopSleep

SpecInterleaved == InitApp /\ [][NextInterleaved]_vars

\* The application and the player on one database in which one tag is given
\* row after row.
NextDuplicates ==
    \/ \E l \in MediaLinks : Add("11", l)
    \/ \E i \in 1..MaxRowId, l \in MediaLinks : Edit(i, "11", l)
    \/ \E i \in 1..MaxRowId : Delete(i)
    \/ Scan({"11"})
    \/ ReadFail
    \/ Lookup
    \/ LookupFail
    \/ Transfer
    \/ Settle
    \/ Start
    \/ ReleasedPlayPause
    \/ ReleasedNext
    \/ ReleasedPrev
    \/ LoopSleep

SpecDuplicates == InitApp /\ [][NextDuplicates]_vars

\* ------------------------------------------------------- what the claims use

\* The client calls the tag scan of the current tick caused.
TagCalls == SelectSeq(tickCalls, LAMBDA c : c.src = "tag")

ButtonPcs == {"poll_pp", "pp_query", "pp_cmd", "pp_sleep",
              "poll_next", "next_cmd", "next_sleep",
              "poll_prev", "prev_cmd", "prev_sleep"}

\* A tag was scanned in this tick and the tag block of the tick has ended.
TagDone == curScan.tag # None /\ pc \in ButtonPcs \cup {"loop_sleep"}

\* Two scans in a row: a scan of an earlier tick, and the scan of this tick.
TwoScans == prevScan.tag # None /\ curScan.tag # None

\* The tag has a row in the registry.
Registered(t) == \E i \in 1..Len(tags) : tags[i].tag_id = t

\* play_media was called for scan s and returned to the loop.
Returned(s) ==
    s.lookup = "hit" /\ (s.transfer = "spotify_exc" \/ s.start # "none")

TransferFailed(s) == s.transfer \in {"spotify_exc", "other_exc"}

HasCall(calls, op) == \E i \in 1..Len(calls) : calls[i].op = op

\* ------------------------------------------------------------------- C1

\* C1: when the transfer call of a newly scanned registered tag fails, with a
\* SpotifyException or any other exception, last_tag_id after the tag handling is
\* what it was before the tick, and the next scan of the same tag issues the
\* transfer again.
C1_FailedTransferKeepsLatch ==
    /\ (TagDone /\ TransferFailed(curScan)) => last_tag_id = curScan.before
    /\ (TagDone /\ TransferFailed(prevScan) /\ curScan.tag = prevScan.tag)
          => HasCall(TagCalls, "transfer_playback")

\* ------------------------------------------------------------------- C2

\* C2 as stated: of two scans of the same tag identifier in a row, the second
\* causes no backend call, whatever the first one's lookup and calls did.
C2_OnlyFirstScanCalls ==
    (TwoScans /\ curScan.tag = prevScan.tag) => TagCalls = <<>>

\* C2, amended: when the same tag identifier is scanned twice in a row and the
\* first scan left it latched (it was the latch already, or play_media returned
\* for it), the second scan is a duplicate: no lookup, no backend call.  When
\* the first scan did not latch it, the second is handled as new.
C2_DuplicateSuppressed ==
    (TwoScans /\ curScan.tag = prevScan.tag) =>
        IF prevScan.lookup = "dup" \/ Returned(prevScan)
        THEN curScan.lookup = "dup" /\ TagCalls = <<>>
        ELSE curScan.lookup # "dup"

C2_Witness ==
    /\ pc = "loop_sleep"
    /\ prevScan.tag = "11" /\ prevScan.start = "error"
    /\ curScan.tag = "11" /\ curScan.lookup = "dup"

\* ------------------------------------------------------------------- C3

\* C3: a newly scanned tag that resolves to (uri, media_type) gets, once playback
\* was transferred, start_playback with uris = [uri] for a track and with
\* context_uri = uri for an album or a playlist; for any other media type no
\* backend call at all, transfer included, is made.
C3_MediaKindDispatch ==
    (TagDone /\ curScan.lookup = "hit") =>
        LET uri == tag_data[1]
            media_type == tag_data[2]
        IN  /\ (media_type = "track" /\ curScan.transfer = "ok") =>
                  \E i \in 1..Len(TagCalls) :
                      /\ TagCalls[i].op = "start_playback"
                      /\ TagCalls[i].uris = <<uri>>
                      /\ TagCalls[i].context_uri = None
            /\ (media_type \in {"album", "playlist"} /\ curScan.transfer = "ok") =>
                  \E i \in 1..Len(TagCalls) :
                      /\ TagCalls[i].op = "start_playback"
                      /\ TagCalls[i].uris = <<>>
                      /\ TagCalls[i].context_uri = uri
            /\ (media_type \notin {"track", "album", "playlist"}) => TagCalls = <<>>

\* ------------------------------------------------------------------- C4

\* C4: a scanned tag identifier without a registry row causes no backend call,
\* leaves last_tag_id as it was, and the lookup that missed is followed by the
\* poll of the first button.
C4_RegistryMiss ==
    (curScan.tag # None /\ ~Registered(curScan.tag)) =>
        /\ TagCalls = <<>>
        /\ last_tag_id = curScan.before
        /\ pc \notin {"transfer", "settle", "start"}
        /\ (event.op = "get_tag_data" /\ event.outcome = "ok")
              => (pc = EntryPc(BTN_PLAY_PAUSE) /\ curScan.lookup = "miss")

C4_Witness ==
    /\ pc = "loop_sleep"
    /\ curScan.tag = "55" /\ curScan.lookup = "miss"
    /\ last_tag_id = "11"

\* ------------------------------------------------------------------- C5

\* Tag A was the latch when another identifier B was scanned, and A is scanned next.
ScanABA ==
    /\ TwoScans
    /\ prevScan.before = curScan.tag
    /\ prevScan.tag # curScan.tag

\* C5 as stated: with A latched, after a scan of any other identifier B the next
\* scan of A is new (not a duplicate).
C5_AnyOtherTagResets == ScanABA => curScan.lookup # "dup"

\* C5, amended: with A latched, after a scan of another identifier B for which
\* play_media returned (B became the latch), the next scan of A is new: it is
\* looked up and, when registered, transferred, and started once the transfer
\* succeeded and the media type is known.  After a B that was not latched, the
\* next scan of A is a duplicate.
C5_LatchedOtherTagResets ==
    ScanABA =>
        IF Returned(prevScan)
        THEN /\ curScan.lookup # "dup"
             /\ (TagDone /\ curScan.lookup # "error") =>
                    /\ curScan.lookup = "hit" <=> Registered(curScan.tag)
                    /\ curScan.lookup = "hit" => HasCall(TagCalls, "transfer_playback")
                    /\ (curScan.transfer = "ok" /\ StartKind(tag_data[2]) # "none")
                          => HasCall(TagCalls, "start_playback")
        ELSE curScan.lookup = "dup" /\ TagCalls = <<>>

C5_Witness ==
    /\ pc = "loop_sleep"
    /\ prevScan.before = "11" /\ prevScan.tag = "22" /\ prevScan.start = "ok"
    /\ curScan.tag = "11" /\ curScan.start = "ok"

\* ------------------------------------------------------------------- C6

\* C6: when start_playback fails after a successful transfer, last_tag_id keeps
\* the value it had before the tick, and the next scan of the same tag issues
\* the transfer again.
C6_StartFailureKeepsLatch ==
    /\ (TagDone /\ curScan.transfer = "ok" /\ curScan.start = "error")
          => last_tag_id = curScan.before
    /\ (TagDone /\ prevScan.start = "error" /\ curScan.tag = prevScan.tag)
          => HasCall(TagCalls, "transfer_playback")

\* ------------------------------------------------------------------- C7

\* The debounce window the claim names, in units of 100 ms.
DebounceWindow == 3

HandlerPc(b) ==
    CASE b = BTN_PLAY_PAUSE -> "pp_query"
      [] b = BTN_NEXT -> "next_cmd"
      [] b = BTN_PREV -> "prev_cmd"

\* The step just taken read a button's level.
Polled == event.op = "GPIO.input" /\ event.outcome = "ok"

\* C7: a button's level is never read, so no press of it is honored, less than
\* the debounce window after the last honored press of that button; and every
\* level read as pressed, which is then at least the window after the last
\* honored press, is honored: the button's handler is entered.
C7_ButtonDebounce ==
    Polled =>
        /\ event.gap = -1 \/ event.gap >= DebounceWindow
        /\ event.level = LOW <=> pc = HandlerPc(event.button)

C7_Witness ==
    /\ Polled
    /\ event.button = BTN_NEXT /\ event.level = LOW
    /\ event.gap >= DebounceWindow
    /\ pc = "next_cmd"

\* ------------------------------------------------------------------- C8

\* The loop was left: by the interrupt, or by an exception nothing caught.
LoopLeft == exitCause # "none"

\* C8: wherever in a tick the interrupt arrives, and also when an uncaught
\* exception ends the loop, GPIO.cleanup is called, is called once, and no
\* step of the program follows it.
C8_CleanupExactlyOnce ==
    /\ [](cleanups <= 1)
    /\ [](pc \in LoopPcs <=> ~LoopLeft)
    /\ [](LoopLeft => pc \in {"finally", "exited"})
    /\ [](pc = "finally" => cleanups = 0)
    /\ [](pc = "exited" => cleanups = 1 /\ ~ENABLED Next)
    /\ (LoopLeft ~> cleanups = 1)

C8_Witness ==
    /\ pc = "exited"
    /\ cleanups = 1
    /\ exitCause = "interrupt"
    /\ exitAt = "settle"

\* ------------------------------------------------------------------- C9

\* The step just taken was a tag read, a registry lookup or a backend call, and
\* the call raised.
Failed ==
    /\ event.outcome \in {"error", "spotify_exc", "other_exc"}
    /\ event.op # "GPIO.input"

TagBlockOps == {"reader.read", "get_tag_data", "transfer_playback", "start_playback"}

\* The position after a handler's call: the handler's sleep.
HandlerSleepPc(src) ==
    CASE src = BTN_PLAY_PAUSE -> "pp_sleep"
      [] src = BTN_NEXT -> "next_sleep"
      [] src = BTN_PREV -> "prev_sleep"

\* One step of the loop.
LoopStep ==
    \/ ReadTag \/ ReadFail \/ Lookup \/ LookupFail \/ Transfer \/ Settle \/ Start
    \/ PollPlayPause \/ PlayPauseQuery \/ PlayPauseCommand \/ PlayPauseDebounce
    \/ PollNext \/ NextCommand \/ NextDebounce
    \/ PollPrev \/ PrevCommand \/ PrevDebounce \/ LoopSleep

\* C9: a failed tag read, registry lookup or backend call of the tag block is
\* followed by the poll of the first button, a failed backend call of a button
\* handler by that handler's sleep; the loop is then still running and can take
\* its next step.  The loop is left only by the interrupt, or by an exception of
\* a button level read, which is none of these failures.
C9_LoopSurvival ==
    /\ (Failed /\ event.op \in TagBlockOps /\ tickCalls = TagCalls)
          => pc = EntryPc(BTN_PLAY_PAUSE)
    /\ (Failed /\ tickCalls # TagCalls)
          => pc = HandlerSleepPc(tickCalls[Len(tickCalls)].src)
    /\ Failed => (pc \in LoopPcs /\ ENABLED LoopStep)
    /\ pc \notin LoopPcs =>
          \/ exitCause = "interrupt"
          \/ exitCause = "exception" /\ exitAt \in {"poll_pp", "poll_next", "poll_prev"}
    /\ pc \in LoopPcs => ENABLED LoopStep

C9_Witness ==
    /\ pc = "read"
    /\ prevScan.transfer = "other_exc"
    /\ event.op = "sleep"
    /\ exitCause = "none"

\* ------------------------------------------------------------------ C10

Rank(src) ==
    CASE src = "tag" -> 0
      [] src = BTN_PLAY_PAUSE -> 1
      [] src = BTN_NEXT -> 2
      [] src = BTN_PREV -> 3

\* C10: among the backend calls of one tick, those of the tag scan come before
\* those of any button, and those of the buttons come in the order Play/Pause,
\* Next, Previous.
C10_DispatchOrder ==
    \A i, j \in 1..Len(tickCalls) :
        i < j => Rank(tickCalls[i].src) <= Rank(tickCalls[j].src)

C10_Witness ==
    /\ Len(tickCalls) = 6
    /\ tickCalls[1].op = "transfer_playback"
    /\ tickCalls[2].op = "start_playback"
    /\ tickCalls[3].op = "current_playback"
    /\ tickCalls[4].op = "pause_playback"
    /\ tickCalls[5].op = "next_track"
    /\ tickCalls[6].op = "previous_track"

\* ------------------------------------------------------------------ C11

\* What last_tag_id is once the tag block following scan s has ended.
LatchOf(s, otherwise) ==
    IF s.tag = None THEN otherwise
    ELSE IF Returned(s) THEN s.tag ELSE s.before

\* What last_tag_id is after the tag block of this tick, whatever the buttons do.
LatchAfterTagBlock == LatchOf(curScan, LatchOf(prevScan, None))

PlayPauseCalls == SelectSeq(tickCalls, LAMBDA c : c.src = BTN_PLAY_PAUSE)

\* C11: an honored Play/Pause press first queries the playback state and then
\* issues one command, pause_playback when the state is playing and
\* start_playback without arguments otherwise, None included; when the query
\* raises no command is issued.  last_tag_id is as the tag block left it, and the
\* handler starts with nothing kept from an earlier press.
C11_PlayPauseToggle ==
    /\ pc = "pp_query" => (playback = None /\ PlayPauseCalls = <<>>)
    /\ pc = "pp_cmd" =>
          /\ Len(PlayPauseCalls) = 1
          /\ PlayPauseCalls[1].op = "current_playback"
    /\ pc = "pp_sleep" =>
          /\ Len(PlayPauseCalls) \in {1, 2}
          /\ PlayPauseCalls[1].op = "current_playback"
          /\ Len(PlayPauseCalls) = 1 <=>
                (event.op = "current_playback" /\ event.outcome = "error")
          /\ Len(PlayPauseCalls) = 2 =>
                /\ PlayPauseCalls[2].op =
                      (IF playback = "playing" THEN "pause_playback"
                                               ELSE "start_playback")
                /\ PlayPauseCalls[2].uris = <<>>
                /\ PlayPauseCalls[2].context_uri = None
    /\ pc \in {"pp_query", "pp_cmd", "pp_sleep"} => last_tag_id = LatchAfterTagBlock

C11_Witness ==
    /\ pc = "pp_sleep"
    /\ playback = None
    /\ Len(PlayPauseCalls) = 2
    /\ PlayPauseCalls[2].op = "start_playback"
    /\ last_tag_id = "22"

\* ------------------------------------------------------------------ C12

\* The (type, id) pairs a link holds: an occurrence of
\* open.spotify.com/<type>/<id> in it with type one of track, album, playlist and
\* id a run of letters and digits that extends as far as they go.
LinkHolds(link) ==
    LET n == Len(link)
        idAt(ty, a, b) ==
            LET head == "open.spotify.com/" \o ty \o "/"
            IN  /\ a <= b
                /\ \A i \in a..b : SubSeq(link, i, i) \in Alnum
                /\ b = n \/ SubSeq(link, b + 1, b + 1) \notin Alnum
                /\ a > Len(head)
                /\ SubSeq(link, a - Len(head), a - 1) = head
        found == {x \in {"track", "album", "playlist"} \X (1..n) \X (1..n) :
                     idAt(x[1], x[2], x[3])}
    IN  {<<x[1], SubSeq(link, x[2], x[3])>> : x \in found}

LinkTable == [l \in Links |-> LinkHolds(l)]

\* The row an accepted form leaves: the form's tag identifier, the URI
\* spotify:<type>:<id> and the media type <type> of a pair the link holds.
StoredFrom(r, id, form) ==
    \E g \in LinkTable[form.link] :
        r = Row(id, form.tag_id, "spotify:" \o g[1] \o ":" \o g[2], g[1])

\* What one add or edit request does to the registry, by its link.
ValidatedWrite ==
    event'.op \in {"add", "edit"} =>
        /\ event'.outcome \in {"400", "302"}
        /\ event'.outcome = "400" <=> LinkTable[event'.link] = {}
        /\ event'.outcome = "400" =>
              tags' = tags /\ sqlite_sequence' = sqlite_sequence
        /\ (event'.outcome = "302" /\ event'.op = "add") =>
              /\ Len(tags') = Len(tags) + 1
              /\ SubSeq(tags', 1, Len(tags)) = tags
              /\ StoredFrom(tags'[Len(tags')], sqlite_sequence', event')
        /\ (event'.outcome = "302" /\ event'.op = "edit") =>
              /\ Len(tags') = Len(tags)
              /\ \A k \in 1..Len(tags) :
                    IF tags[k].id = event'.id
                    THEN StoredFrom(tags'[k], event'.id, event')
                    ELSE tags'[k] = tags[k]
        /\ (event'.outcome = "302" /\ event'.op = "add"
               /\ event'.link = "https://open.spotify.com/track/abc123") =>
              /\ tags'[Len(tags')].spotify_uri = "spotify:track:abc123"
              /\ tags'[Len(tags')].media_type = "track"

\* C12: add and edit accept a link exactly if it holds
\* open.spotify.com/(track|album|playlist)/<alphanumeric id>, and then store the
\* URI spotify:<type>:<id> with media type <type> (the link
\* https://open.spotify.com/track/abc123 is stored as spotify:track:abc123 and
\* track); for every other link the response is 400 and the registry is exactly
\* as it was before the request.
C12_LinkValidation == [][ValidatedWrite]_vars

\* An edit of a stored row was answered 400 for a link without the type segment,
\* and the row still holds what its accepted link gave.
C12_Witness ==
    /\ event.op = "edit"
    /\ event.outcome = "400"
    /\ event.link = "https://open.spotify.com/abc123"
    /\ RowIndex(event.id) # 0
    /\ tags[RowIndex(event.id)].spotify_uri = "spotify:track:abc123"
    /\ tags[RowIndex(event.id)].media_type = "track"

\* ------------------------------------------------------------------ C13

\* A step that changes last_tag_id is a step of the tag block of a tick whose
\* scanned identifier differs from last_tag_id, and it sets last_tag_id to that
\* identifier.
LatchStep ==
    last_tag_id' # last_tag_id =>
        /\ pc \in {"transfer", "start"}
        /\ curScan.tag # None
        /\ curScan.tag = tag_id
        /\ curScan.tag # last_tag_id
        /\ last_tag_id' = curScan.tag

\* C13: last_tag_id changes only in a tick whose scanned identifier differs from
\* it, and then to that identifier; a duplicate scan, a failed read, the
\* handling of a button, whether its calls succeed or fail, and the end of a
\* tick leave it as it is and never clear it.
C13_LatchDiscipline ==
    /\ [][LatchStep]_vars
    /\ [](pc \in ButtonPcs \cup {"loop_sleep"} => last_tag_id = LatchAfterTagBlock)
    /\ []((TagDone /\ curScan.lookup = "dup") => last_tag_id = curScan.before)
    /\ [](last_tag_id = None => (~Returned(curScan) /\ ~Returned(prevScan)))

\* Tag 22 replaced tag 11 in the latch, and a failed Next command in the same
\* tick has left it there.
C13_Witness ==
    /\ pc = "next_sleep"
    /\ event.outcome = "error"
    /\ curScan.tag = "22"
    /\ curScan.before = "11"
    /\ last_tag_id = "22"

\* ------------------------------------------------------------------ C14

CallsOf(calls, op) == SelectSeq(calls, LAMBDA c : c.op = op)

\* C14: the scan of a new registered tag causes at most one transfer_playback
\* and at most one start_playback in its tick; start_playback is called only
\* after the transfer_playback of the tick returned without an exception; and
\* when it did and the media type is track, album or playlist, play_media cannot
\* but go on to start_playback, which has been called when the tag block ends.
C14_TransferThenStart ==
    /\ Len(CallsOf(TagCalls, "transfer_playback")) <= 1
    /\ Len(CallsOf(TagCalls, "start_playback")) <= 1
    /\ HasCall(TagCalls, "start_playback") =>
          /\ Len(TagCalls) = 2
          /\ TagCalls[1].op = "transfer_playback"
          /\ TagCalls[2].op = "start_playback"
          /\ curScan.transfer = "ok"
    /\ TagCalls # <<>> => (curScan.lookup = "hit" /\ TagCalls[1].op = "transfer_playback")
    /\ pc = "settle" => (curScan.transfer = "ok" /\ ENABLED Settle)
    /\ (pc = "start" /\ StartKind(tag_data[2]) # "none") =>
          (ENABLED Start /\ ~ENABLED LoopSleep)
    /\ (TagDone /\ curScan.transfer = "ok" /\ StartKind(tag_data[2]) # "none") =>
          HasCall(TagCalls, "start_playback")

\* The transfer for the album of tag 22 returned, and start_playback was called.
C14_Witness ==
    /\ pc = "poll_pp"
    /\ curScan.tag = "22"
    /\ curScan.transfer = "ok"
    /\ Len(TagCalls) = 2
    /\ TagCalls[2].op = "start_playback"
    /\ TagCalls[2].context_uri = "spotify:album:b2"

\* ------------------------------------------------------------------ C15

\* The calls the handler of button b made in this tick.
HandlerCalls(b) == SelectSeq(tickCalls, LAMBDA c : c.src = b)

\* The step of handle_next or handle_previous that calls the client: one call,
\* and nothing of the loop's state is changed by it, whether it returns or raises.
TransportStep ==
    (pc \in {"next_cmd", "prev_cmd"} /\ pc' \in LoopPcs) =>
        /\ pc' = (IF pc = "next_cmd" THEN "next_sleep" ELSE "prev_sleep")
        /\ Len(tickCalls') = Len(tickCalls) + 1
        /\ tickCalls'[Len(tickCalls')].op =
              (IF pc = "next_cmd" THEN "next_track" ELSE "previous_track")
        /\ event'.outcome \in {"ok", "error"}
        /\ UNCHANGED <<last_tag_id, tag_id, tag_data, playback, tags>>

\* C15: a Next (Previous) press that reaches its handler causes exactly one
\* next_track (previous_track) call and no current_playback query, whatever
\* last_tag_id is, None included; when the call fails the loop is at the
\* handler's sleep and nothing of its state has changed.
C15_Transport ==
    /\ [][TransportStep]_vars
    /\ [](pc = "next_cmd" => HandlerCalls(BTN_NEXT) = <<>>)
    /\ [](pc = "prev_cmd" => HandlerCalls(BTN_PREV) = <<>>)
    /\ [](pc = "next_sleep" =>
             /\ Len(HandlerCalls(BTN_NEXT)) = 1
             /\ HandlerCalls(BTN_NEXT)[1].op = "next_track"
             /\ last_tag_id = LatchAfterTagBlock
             /\ ENABLED NextDebounce)
    /\ [](pc = "prev_sleep" =>
             /\ Len(HandlerCalls(BTN_PREV)) = 1
             /\ HandlerCalls(BTN_PREV)[1].op = "previous_track"
             /\ last_tag_id = LatchAfterTagBlock
             /\ ENABLED PrevDebounce)

\* No tag was ever latched, and the Next handler's one call failed.
C15_Witness ==
    /\ pc = "next_sleep"
    /\ last_tag_id = None
    /\ prevScan.tag = None
    /\ curScan.tag = None
    /\ event.op = "next_track"
    /\ event.outcome = "error"
    /\ tickCalls = <<Call(BTN_NEXT, "next_track", <<>>, None)>>

\* ------------------------------------------------------------------ C18

\* A step that latches an identifier follows a lookup of the same tick that
\* returned a row for it.
LatchedAfterHit ==
    last_tag_id' # last_tag_id =>
        /\ last_tag_id' = curScan.tag
        /\ curScan.lookup = "hit"
        /\ tag_data = get_tag_data(last_tag_id')
        /\ tag_data # NoRow

\* C18: last_tag_id is None or an identifier whose lookup returned a row in the
\* tick that latched it; an identifier that missed the registry, whose lookup
\* failed or whose read failed is not latched by that tick.
C18_LatchedWasFound ==
    /\ [][LatchedAfterHit]_vars
    /\ [](last_tag_id = None \/ Registered(last_tag_id))
    /\ []((TagDone /\ curScan.lookup \in {"miss", "error"}) =>
             (last_tag_id = curScan.before /\ last_tag_id # curScan.tag))
    /\ [](event.op = "reader.read" /\ event.outcome = "error" =>
             last_tag_id = LatchOf(prevScan, None))

\* Tag 55 missed the registry while tag 11 was latched; tag 11 still is.
C18_Witness ==
    /\ pc = "loop_sleep"
    /\ curScan.tag = "55"
    /\ curScan.lookup = "miss"
    /\ last_tag_id = "11"

\* ------------------------------------------------------------------ C16

\* The rows of the registry that carry tag identifier t.
RowsOf(t) == {r \in {tags[k] : k \in 1..Len(tags)} : r.tag_id = t}

\* An accepted add leaves every row there was and one more, whether or not the
\* tag identifier had a row.
AddStep ==
    (event'.op = "add" /\ event'.outcome = "302") =>
        /\ Len(tags') = Len(tags) + 1
        /\ SubSeq(tags', 1, Len(tags)) = tags
        /\ tags'[Len(tags')].tag_id = event'.tag_id
        /\ \A r \in RowsOf(event'.tag_id) : tags'[Len(tags')].id > r.id

\* A lookup of the player that returns gives the URI and the media type of the
\* matching row with the least row id, or None if no row matches.
LookupStep ==
    (pc = "lookup" /\ event'.op = "get_tag_data" /\ event'.outcome = "ok") =>
        IF RowsOf(tag_id) = {}
        THEN tag_data' = NoRow
        ELSE LET r == CHOOSE x \in RowsOf(tag_id) : \A y \in RowsOf(tag_id) : x.id <= y.id
             IN  tag_data' = <<r.spotify_uri, r.media_type>>

\* C16: add accepts a tag identifier that has a row already and leaves a second
\* row beside it; the player's lookup of that identifier returns the URI and the
\* media type of one row, the earliest inserted of the matching rows that are
\* still in the registry (row ids are given in the order of insertion).
C16_FirstMatchWins ==
    /\ [][AddStep]_vars
    /\ [][LookupStep]_vars
    /\ [](\A i, j \in 1..Len(tags) : i < j => tags[i].id < tags[j].id)
    /\ [](\A k \in 1..Len(tags) : tags[k].id <= sqlite_sequence)

\* Of three rows added for tag 11 the first was deleted; the lookup returned the
\* second, which differs from the third.
C16_Witness ==
    /\ pc = "transfer"
    /\ Len(tags) = 2
    /\ tags[1].id = 2 /\ tags[2].id = 3
    /\ tags[1].tag_id = "11" /\ tags[2].tag_id = "11"
    /\ tags[1].spotify_uri # tags[2].spotify_uri
    /\ tag_id = "11"
    /\ tag_data = <<tags[1].spotify_uri, tags[1].media_type>>

\* ------------------------------------------------------------------ C17

\* media_type is track, album or playlist and spotify_uri is
\* spotify:<media_type>:<id> with id a run of letters and digits.
WellFormed(r) ==
    LET head == "spotify:" \o r.media_type \o ":"
        u == r.spotify_uri
    IN  /\ r.media_type \in {"track", "album", "playlist"}
        /\ Len(u) > Len(head)
        /\ SubSeq(u, 1, Len(head)) = head
        /\ \A i \in (Len(head) + 1)..Len(u) : SubSeq(u, i, i) \in Alnum

\* C17: in a registry that started empty, whatever was added, edited and
\* deleted, and whatever requests were rejected, every row has a media type of
\* track, album or playlist and the URI spotify:<media_type>:<id>; the player
\* finds a start keyword for every row and never takes the branch for an
\* unknown media type.
C17_RowsWellFormed ==
    /\ \A k \in 1..Len(tags) :
          WellFormed(tags[k]) /\ StartKind(tags[k].media_type) # "none"
    /\ tag_data # NoRow => StartKind(tag_data[2]) # "none"
    /\ curScan.start # "unknown_type"
    /\ prevScan.start # "unknown_type"

\* An edit with the link of a show was rejected while both tags had a row, and
\* the player has started the media of the tag it scanned.
C17_Witness ==
    /\ event.op = "edit"
    /\ event.outcome = "400"
    /\ event.link = ShowLink
    /\ Len(tags) = 2
    /\ curScan.start = "ok"

\* ------------------------------------------------------------------ C19

\* staleLatch is lowered only by a step that latches another tag.
StaleUntilRelatched ==
    (staleLatch /\ ~staleLatch') =>
        (last_tag_id' # last_tag_id /\ curScan.lookup = "hit")

\* C19: once the row of the latched tag was edited to another link or deleted,
\* every scan of that tag is taken for a duplicate, with no lookup and no
\* backend call in its tick, until a scan of another tag that has a row has
\* replaced the latch.
C19_StaleLatch ==
    /\ [][StaleUntilRelatched]_vars
    /\ [](staleLatch => last_tag_id # None)
    /\ [](curScan.stale =>
             /\ curScan.tag = curScan.before
             /\ curScan.lookup = "dup"
             /\ curScan.transfer = "none" /\ curScan.start = "none"
             /\ TagCalls = <<>>
             /\ tag_data = NoRow
             /\ last_tag_id = curScan.tag)

\* The row of the latched tag was deleted, and two scans of the tag in a row
\* were taken for duplicates.
C19_Witness ==
    /\ pc = "loop_sleep"
    /\ prevScan.stale
    /\ curScan.stale
    /\ prevScan.tag = curScan.tag
    /\ RowsOf(curScan.tag) = {}

====
